---- MODULE Spec2Model ----
(***************************************************************************)
(* Model of the profiling and rule-inference engine of datalens:           *)
(*   src/datalens-main/src/pbl_generator.py                                 *)
(*   src/datalens-main/src/profiler.py                                      *)
(* A column (pandas Series) is a record [dtype, cells]; a cell is a        *)
(* missing value, a string (a tuple of one-character strings) or an        *)
(* integer.  Rules are records whose field "text" is the literal rule      *)
(* text with the formatted numbers kept as separate fields; the dash and  *)
(* the backquotes of the source texts are written "-" and left out.       *)
(* Ratios are compared in hundredths (frac >= 0.98 is                     *)
(* 100 * matches >= 98 * values) and quartile bounds are kept in eighths.  *)
(* Columns stay below sample_n and sample_size values, so every           *)
(* Series.sample draws the whole column in some order.                     *)
(***************************************************************************)
EXTENDS Integers, Sequences, FiniteSets, TLC

VARIABLES series, reference, df, rules, ref_rules, outliers, profile,
          samples, label, regex, drawn

vars == <<series, reference, df, rules, ref_rules, outliers, profile,
          samples, label, regex, drawn>>

----------------------------------------------------------------------------
(* Cells and characters *)

NaN == [k |-> "nan"]
Str(s) == [k |-> "str", s |-> s]
Num(n) == [k |-> "int", n |-> n]

Digits == {"0", "1", "2", "3", "4", "5", "6", "7", "8", "9"}

Letters ==
  {"a", "b", "c", "d", "e", "f", "g", "h", "i", "j", "k", "l", "m",
   "n", "o", "p", "q", "r", "s", "t", "u", "v", "w", "x", "y", "z",
   "A", "B", "C", "D", "E", "F", "G", "H", "I", "J", "K", "L", "M",
   "N", "O", "P", "Q", "R", "S", "T", "U", "V", "W", "X", "Y", "Z"}

Whitespace == {" "}

(* The characters in code-point order, as sorted() compares them. *)
CharOrder ==
  <<" ", "+", "-", ".", "/",
    "0", "1", "2", "3", "4", "5", "6", "7", "8", "9", "@",
    "A", "B", "C", "D", "E", "F", "G", "H", "I", "J", "K", "L", "M",
    "N", "O", "P", "Q", "R", "S", "T", "U", "V", "W", "X", "Y", "Z",
    "a", "b", "c", "d", "e", "f", "g", "h", "i", "j", "k", "l", "m",
    "n", "o", "p", "q", "r", "s", "t", "u", "v", "w", "x", "y", "z">>

Chars == {CharOrder[i] : i \in 1..Len(CharOrder)}

ord == [c \in Chars |-> CHOOSE i \in 1..Len(CharOrder) : CharOrder[i] = c]

DigitChar == <<"0", "1", "2", "3", "4", "5", "6", "7", "8", "9">>

Min(a, b) == IF a <= b THEN a ELSE b
Max(a, b) == IF a >= b THEN a ELSE b

RECURSIVE int_str(_)
(* str(n) of a non-negative int: its decimal digits. *)
int_str(n) ==
  IF n < 10 THEN <<DigitChar[n + 1]>>
  ELSE int_str(n \div 10) \o <<DigitChar[(n % 10) + 1]>>

(* str(x) of one cell of a column of the given dtype: a float64 column   *)
(* prints its integral values with a trailing ".0".                       *)
cell_str(c, dtype) ==
  IF c.k = "str" THEN c.s
  ELSE IF c.k = "nan" THEN <<"n", "a", "n">>
  ELSE IF dtype = "float64" THEN int_str(c.n) \o <<".", "0">>
  ELSE int_str(c.n)

----------------------------------------------------------------------------
(* The pandas Series operations the code uses *)

Series(dtype, cells) == [dtype |-> dtype, cells |-> cells]

len(s) == Len(s.cells)

empty(s) == Len(s.cells) = 0

isna_sum(s) == Cardinality({i \in 1..Len(s.cells) : s.cells[i] = NaN})

dropna(s) == Series(s.dtype, SelectSeq(s.cells, LAMBDA c : c # NaN))

astype_str(s) ==
  Series("object", [i \in 1..Len(s.cells) |-> Str(cell_str(s.cells[i], s.dtype))])

nunique(s) == Cardinality({s.cells[i] : i \in 1..Len(s.cells)} \ {NaN})

head(s, n) == Series(s.dtype, SubSeq(s.cells, 1, Min(n, Len(s.cells))))

tolist(s) == [i \in 1..Len(s.cells) |-> s.cells[i].s]

is_numeric_dtype(s) == s.dtype \in {"int64", "float64"}

----------------------------------------------------------------------------
(* The regular expressions of the code, on tuples of characters *)

(* re.fullmatch(r'\d+', v) *)
fullmatch_digits(v) == Len(v) > 0 /\ \A i \in 1..Len(v) : v[i] \in Digits

(* re.fullmatch(r'[A-Za-z ]+', v) *)
fullmatch_alpha(v) == Len(v) > 0 /\ \A i \in 1..Len(v) : v[i] \in Letters \cup {" "}

(* re.search(r'@', v) *)
search_at(v) == \E i \in 1..Len(v) : v[i] = "@"

(* re.fullmatch(r'\+?\d[\d\-\s]{6,}', v) *)
fullmatch_phone(v) ==
  \E p \in {0, 1} :
    /\ p = 1 => (Len(v) >= 1 /\ v[1] = "+")
    /\ Len(v) >= p + 7
    /\ v[p + 1] \in Digits
    /\ \A i \in (p + 2)..Len(v) : v[i] \in Digits \cup {"-"} \cup Whitespace

(* re.search(r'\d{2,4}[-/]\d{1,2}[-/]\d{1,2}', v) *)
search_date(v) ==
  \E i \in 1..Len(v), a \in 2..4, b \in 1..2, c \in 1..2 :
    /\ i + a + b + c + 1 <= Len(v)
    /\ \A j \in i..(i + a - 1) : v[j] \in Digits
    /\ v[i + a] \in {"-", "/"}
    /\ \A j \in (i + a + 1)..(i + a + b) : v[j] \in Digits
    /\ v[i + a + b + 1] \in {"-", "/"}
    /\ \A j \in (i + a + b + 2)..(i + a + b + c + 1) : v[j] \in Digits

----------------------------------------------------------------------------
(* pbl_generator.py: single-dataset rule generator *)

None == [k |-> "None"]

(* The value of a result variable before the call that sets it. *)
NotCalled == [k |-> "not called"]

Rule(text) == [text |-> text]

RangeRule(text, lo, hi) == [text |-> text, min |-> lo, max |-> hi]

lengths_of(s) == [i \in 1..Len(s.cells) |-> Len(s.cells[i].s)]

SeqMin(q) == CHOOSE m \in {q[i] : i \in 1..Len(q)} : \A j \in 1..Len(q) : m <= q[j]

SeqMax(q) == CHOOSE m \in {q[i] : i \in 1..Len(q)} : \A j \in 1..Len(q) : m >= q[j]

Occurrences(q, x) == Cardinality({i \in 1..Len(q) : q[i] = x})

(* lengths.mode().iloc[0]: the smallest of the most frequent values. *)
mode_first(q) ==
  LET vals == {q[i] : i \in 1..Len(q)}
      top == {x \in vals : \A y \in vals : Occurrences(q, x) >= Occurrences(q, y)}
  IN CHOOSE m \in top : \A y \in top : m <= y

infer_length_rules_typical(ser) ==
  LET s == astype_str(dropna(ser))
      lengths == lengths_of(s)
  IN IF empty(s) THEN None
     ELSE [min |-> SeqMin(lengths), max |-> mode_first(lengths), typical |-> mode_first(lengths)]

infer_length_rules(ser) ==
  LET s == astype_str(dropna(ser))
      lengths == lengths_of(s)
  IN IF empty(s) THEN None
     ELSE [min |-> SeqMin(lengths), max |-> SeqMax(lengths), typical |-> mode_first(lengths)]

(* The thresholds are kept in hundredths: frac >= 0.98 is                 *)
(* 100 * matches >= 98 * values.                                          *)
is_numeric_only_threshold == 98

is_alpha_only_threshold == 98

(* is_numeric_only with the threshold excluded *)
is_numeric_only_strict(ser) ==
  LET s == astype_str(dropna(ser))
  IN IF empty(s) THEN FALSE
     ELSE 100 * Cardinality({i \in 1..Len(s.cells) : fullmatch_digits(s.cells[i].s)})
            > is_numeric_only_threshold * Len(s.cells)

is_numeric_only(ser) ==
  LET s == astype_str(dropna(ser))
  IN IF empty(s) THEN FALSE
     ELSE 100 * Cardinality({i \in 1..Len(s.cells) : fullmatch_digits(s.cells[i].s)})
            >= is_numeric_only_threshold * Len(s.cells)

is_alpha_only(ser) ==
  LET s == astype_str(dropna(ser))
  IN IF empty(s) THEN FALSE
     ELSE 100 * Cardinality({i \in 1..Len(s.cells) : fullmatch_alpha(s.cells[i].s)})
            >= is_alpha_only_threshold * Len(s.cells)

head_n == 50

low_cardinality_pct == 2

(* null_rule with the test on the null count inverted *)
null_rule_inverted(ser) ==
  LET null_allowed == isna_sum(ser) > 0
  IN IF null_allowed THEN <<Rule("Nulls are NOT allowed.")>>
     ELSE <<Rule("Nulls are allowed.")>>

null_rule(ser) ==
  LET null_allowed == isna_sum(ser) > 0
  IN IF ~null_allowed THEN <<Rule("Nulls are NOT allowed.")>>
     ELSE <<Rule("Nulls are allowed.")>>

charclass_rules(ser) ==
  LET lengths == infer_length_rules(ser)
  IN IF is_numeric_only(ser) THEN
       <<Rule("Only numeric characters allowed.")>>
       \o (IF lengths # None
           THEN <<RangeRule("Character length between {min} and {max}.",
                            lengths.min, lengths.max)>>
           ELSE <<>>)
       \o <<Rule("No special characters or alphabets allowed.")>>
     ELSE IF is_alpha_only(ser) THEN
       <<Rule("Alphabetic characters allowed only.")>>
     ELSE
       LET s == astype_str(dropna(ser))
           sample == tolist(head(s, head_n))
       IN (IF \E i \in 1..Len(sample) : search_at(sample[i])
           THEN <<Rule("Email format expected (contains '@').")>> ELSE <<>>)
          \o (IF \E i \in 1..Len(sample) : fullmatch_phone(sample[i])
              THEN <<Rule("Phone number like pattern detected.")>> ELSE <<>>)
          \o (IF lengths # None
              THEN <<RangeRule("Recommended character length between {min} and {max}.",
                               lengths.min, lengths.max)>>
              ELSE <<>>)
          \o <<Rule("Avoid special characters unless required (/, -, : etc).")>>

(* uniqueness_rule with the ratio taken over the non-null rows only *)
uniqueness_rule_nonnull(ser) ==
  IF nunique(ser) = len(dropna(ser))
  THEN <<Rule("Values are unique - consider as candidate key.")>>
  ELSE IF 100 * nunique(ser) < low_cardinality_pct * Max(1, len(dropna(ser)))
       THEN <<Rule("Low cardinality - likely categorical; map to lookup table or enumerations.")>>
       ELSE <<>>

uniqueness_rule(ser) ==
  IF nunique(ser) = len(dropna(ser))
  THEN <<Rule("Values are unique - consider as candidate key.")>>
  ELSE IF 100 * nunique(ser) < low_cardinality_pct * Max(1, len(ser))
       THEN <<Rule("Low cardinality - likely categorical; map to lookup table or enumerations.")>>
       ELSE <<>>

(* generate_pbl_for_column with the uniqueness step before the character-class step *)
generate_pbl_uniqueness_early(ser) ==
  null_rule(ser) \o uniqueness_rule(ser) \o charclass_rules(ser)

generate_pbl_for_column(ser) ==
  null_rule(ser) \o charclass_rules(ser) \o uniqueness_rule(ser)

----------------------------------------------------------------------------
(* Numeric coercion *)

RECURSIVE str_int(_)
(* The value of a tuple of decimal digits. *)
str_int(v) ==
  IF Len(v) = 0 THEN 0
  ELSE 10 * str_int(SubSeq(v, 1, Len(v) - 1)) + (ord[v[Len(v)]] - ord["0"])

(* pd.to_numeric(series, errors='coerce') of one cell: a number, a string  *)
(* of digits with an optional sign "+", or else missing.                  *)
to_numeric(c) ==
  IF c.k = "int" THEN c
  ELSE IF c.k = "str" /\ fullmatch_digits(c.s) THEN Num(str_int(c.s))
  ELSE IF c.k = "str" /\ Len(c.s) > 1 /\ c.s[1] = "+" /\ fullmatch_digits(Tail(c.s))
       THEN Num(str_int(Tail(c.s)))
  ELSE NaN

coerce(ser) ==
  LET num == [i \in 1..Len(ser.cells) |-> to_numeric(ser.cells[i])]
      kept == SelectSeq(num, LAMBDA c : c # NaN)
  IN [i \in 1..Len(kept) |-> kept[i].n]

----------------------------------------------------------------------------
(* pbl_generator.py: reference-based rule generator *)

max_samples == 100

(* The string forms of sample_values[:max_samples]; every sampled value is *)
(* a string already, so pd.notna keeps them all.                           *)
regex_sample(sample_values) ==
  SubSeq(sample_values, 1, Min(max_samples, Len(sample_values)))

(* The regexes are kept as their source text; the fallback keeps its two  *)
(* length bounds as fields.                                                *)
_suggest_regex_from_sample(sample_values) ==
  LET sample == regex_sample(sample_values)
      nonempty == {i \in 1..Len(sample) : Len(sample[i]) > 0}
      all_digits == \A i \in 1..Len(sample) : fullmatch_digits(sample[i])
      lengths == [i \in 1..Len(sample) |-> Len(sample[i])]
  IN IF Len(sample) = 0 THEN None
     ELSE IF all_digits THEN [re |-> "^\\d+$"]
     ELSE IF \A i \in nonempty : search_at(sample[i])
          THEN [re |-> "^[\\w\\.-]+@[\\w\\.-]+\\.\\w{2,}$"]
     ELSE IF \A i \in nonempty : search_date(sample[i])
          THEN [re |-> "^\\d{2,4}[-/]\\d{1,2}[-/]\\d{1,2}$"]
     ELSE [re |-> "^.{min,max}$", min |-> SeqMin(lengths), max |-> SeqMax(lengths)]

enum_threshold == 95

sample_size == 500

distinct_ref_cap == 200

enumeration_max == 50

allowed_sample_n == 20

CountRule(text, n) == [text |-> text, n |-> n]

FracRule(text, frac) == [text |-> text, frac |-> frac]

(* u < v for two strings, as sorted() compares them *)
str_lt(u, v) ==
  \E i \in 1..Len(v) :
    /\ i <= Len(u) + 1
    /\ \A j \in 1..(i - 1) : u[j] = v[j]
    /\ (i = Len(u) + 1 \/ ord[u[i]] < ord[v[i]])

(* sorted(list(vals)) *)
sorted(vals) ==
  LET ranked == {<<Cardinality({u \in vals : str_lt(u, v)}), v>> : v \in vals}
  IN [i \in 1..Cardinality(vals) |-> (CHOOSE p \in ranked : p[1] = i - 1)[2]]

(* f"{n/d:.2f}" in hundredths: n/d rounded to two decimals, ties to even   *)
fmt2(n, d) ==
  LET q == (100 * n) \div d
      r == (100 * n) % d
  IN IF 2 * r > d \/ (2 * r = d /\ q % 2 = 1) THEN q + 1 ELSE q

unique(s) == {s.cells[i].s : i \in 1..Len(s.cells)}

(* t and r are the null-dropped, stringified columns *)
ref_null_rule(t, r) ==
  IF isna_sum(r) = 0
  THEN IF isna_sum(t) = 0
       THEN <<Rule("Nulls are NOT allowed (reference has no nulls).")>>
       ELSE <<Rule("Nulls are present in this dataset but reference expects none.")>>
  ELSE <<Rule("Nulls allowed (reference permits nulls).")>>

ref_key_rule(r) ==
  IF nunique(r) = len(r)
  THEN <<Rule("Reference values are unique - consider as reference key.")>>
  ELSE <<>>

(* The number of distinct target values found in the reference. *)
overlap_count(t_vals, r_vals) == Cardinality({v \in t_vals : v \in r_vals})

(* meets_threshold with the threshold itself excluded *)
meets_threshold_strict(n, d) == 100 * n > enum_threshold * d

(* overlap_frac >= enum_threshold, for overlap_frac = n / d *)
meets_threshold(n, d) == 100 * n >= enum_threshold * d

enumeration_rules(t, r) ==
  IF len(r) > 0 /\ len(t) > 0
  THEN LET t_vals == unique(t)
           r_vals == unique(r)
           n == IF Cardinality(t_vals) = 0 THEN 0 ELSE overlap_count(t_vals, r_vals)
           d == Max(1, Cardinality(t_vals))
       IN IF meets_threshold(n, d)
          THEN LET all_ref == sorted(r_vals)
                   distinct_ref == SubSeq(all_ref, 1, Min(distinct_ref_cap, Len(all_ref)))
               IN (IF Len(distinct_ref) <= enumeration_max
                   THEN <<CountRule("Allowed values derived from reference (enumeration of {n} values).",
                                    Len(distinct_ref)),
                          [text |-> "Allowed values (sample): {values}",
                           values |-> SubSeq(distinct_ref, 1, Min(allowed_sample_n, Len(distinct_ref)))]>>
                   ELSE <<CountRule("Reference provides a large allowed list ({n} values). Use lookup mapping.",
                                    Len(distinct_ref))>>)
                  \o <<FracRule("Fraction of target values present in reference: {frac}", fmt2(n, d))>>
          ELSE IF n > 0
               THEN <<FracRule("{frac} fraction of target values match reference values (partial overlap).",
                               fmt2(n, d))>>
               ELSE <<Rule("No meaningful overlap with reference values; reference may be different domain or mismatch.")>>
  ELSE <<>>

numeric_range_rules(t, r) ==
  IF is_numeric_dtype(r) /\ is_numeric_dtype(t)
  THEN LET tnum == coerce(t)
           rnum == coerce(r)
       IN (IF Len(tnum) > 0
           THEN <<RangeRule("Numeric range observed in target: min={min}, max={max}.",
                            SeqMin(tnum), SeqMax(tnum))>>
           ELSE <<>>)
          \o (IF Len(rnum) > 0
              THEN <<RangeRule("Reference numeric range: min={min}, max={max}.",
                               SeqMin(rnum), SeqMax(rnum))>>
              ELSE <<>>)
  ELSE <<>>

(* ref_sample and tgt_sample are the two columns in the order drawn; only *)
(* one of the two samples is read.                                        *)
pattern_rule(ref_sample, tgt_sample) ==
  LET pattern == _suggest_regex_from_sample(IF Len(ref_sample) > 0 THEN ref_sample ELSE tgt_sample)
  IN IF pattern # None
     THEN <<[text |-> "Suggested pattern (regex): {pattern}", pattern |-> pattern]>>
     ELSE <<>>

distinct_count_rules(t, r) ==
  (IF len(r) > 0 THEN <<CountRule("Reference distinct count: {n}", nunique(r))>> ELSE <<>>)
  \o (IF len(t) > 0 THEN <<CountRule("Target distinct count: {n}", nunique(t))>> ELSE <<>>)

(* target_uniqueness_rule with the ratio taken over one more row *)
target_uniqueness_rule_plus(t) ==
  IF nunique(t) = len(t)
  THEN <<Rule("Values in this dataset are unique - candidate key.")>>
  ELSE IF 100 * nunique(t) < low_cardinality_pct * Max(1, len(t) + 1)
       THEN <<Rule("Low cardinality in target - likely categorical.")>>
       ELSE <<>>

target_uniqueness_rule(t) ==
  IF nunique(t) = len(t)
  THEN <<Rule("Values in this dataset are unique - candidate key.")>>
  ELSE IF 100 * nunique(t) < low_cardinality_pct * Max(1, len(t))
       THEN <<Rule("Low cardinality in target - likely categorical.")>>
       ELSE <<>>

(* r.sample(n) of a whole column is a reordering of it; the draw is one   *)
(* of the orders "forward" and "reversed".                                *)
draw_sample(s, order) ==
  IF order = "forward" THEN tolist(s)
  ELSE [i \in 1..Len(s.cells) |-> s.cells[Len(s.cells) + 1 - i].s]

(* The list sampled from a column: its non-null strings in the order      *)
(* drawn, or the empty list.                                               *)
sample_list(col, order) ==
  LET s == astype_str(dropna(col))
  IN IF len(s) > 0 THEN draw_sample(s, order) ELSE <<>>

derive_rules_from_reference(target_series, reference_series, ref_order, tgt_order) ==
  LET t == astype_str(dropna(target_series))
      r == astype_str(dropna(reference_series))
      ref_sample == sample_list(reference_series, ref_order)
      tgt_sample == sample_list(target_series, tgt_order)
  IN ref_null_rule(t, r)
     \o ref_key_rule(r)
     \o enumeration_rules(t, r)
     \o numeric_range_rules(t, r)
     \o pattern_rule(ref_sample, tgt_sample)
     \o distinct_count_rules(t, r)
     \o target_uniqueness_rule(t)

----------------------------------------------------------------------------
(* profiler.py *)

sample_n == 500

(* The categories in the order sorted() gives them. *)
PatternOrder == <<"alpha", "date-like", "email-like", "numeric">>

pattern_matches(cat, v) ==
  CASE cat = "numeric" -> fullmatch_digits(v)
    [] cat = "alpha" -> fullmatch_alpha(v)
    [] cat = "email-like" -> search_at(v)
    [] cat = "date-like" -> search_date(v)

(* The number of values Series.sample is asked for. *)
sample_take_one(n) == Min(n, 1)

sample_take(n) == Min(n, sample_n)

(* The draw that keeps the order of the column, and the one that turns it *)
(* round.                                                                  *)
IdentityDraw(n) == [i \in 1..n |-> i]

ReversedDraw(n) == [i \in 1..n |-> n + 1 - i]

(* draw is the permutation of the non-null values Series.sample picks;    *)
(* the sample is its first sample_take values.  The label is kept as the  *)
(* sequence of names that ", ".join(sorted(patterns)) joins.              *)
detect_pattern(ser, draw) ==
  LET s == astype_str(dropna(ser))
      vals == tolist(s)
      sample == [i \in 1..sample_take(len(s)) |-> vals[draw[i]]]
      patterns == {cat \in {"numeric", "alpha", "email-like", "date-like"} :
                     \E i \in 1..Len(sample) : pattern_matches(cat, sample[i])}
  IN IF empty(s) THEN <<"empty">>
     ELSE IF patterns # {} THEN SelectSeq(PatternOrder, LAMBDA cat : cat \in patterns)
     ELSE <<"mixed">>

(* The values in ascending order: position i holds the value v with       *)
(* fewer than i values below it and at least i values not above it.       *)
sort_values(q) ==
  [i \in 1..Len(q) |->
     CHOOSE v \in {q[j] : j \in 1..Len(q)} :
       /\ Cardinality({j \in 1..Len(q) : q[j] < v}) < i
       /\ i <= Cardinality({j \in 1..Len(q) : q[j] <= v})]

(* 4 * s.quantile(k/4), linear interpolation between the order statistics  *)
(* around position (k/4) * (n - 1) of the sorted values.                   *)
quantile_x4(q, k) ==
  LET srt == sort_values(q)
      pos4 == k * (Len(q) - 1)
      i == pos4 \div 4
      g == pos4 % 4
  IN IF g = 0 THEN 4 * srt[i + 1]
     ELSE 4 * srt[i + 1] + g * (srt[i + 2] - srt[i + 1])

(* below with the bound included *)
below_or_equal(x, lower_x8) == 8 * x <= lower_x8

(* s < lower, with lower in eighths *)
below(x, lower_x8) == 8 * x < lower_x8

(* s > upper, with upper in eighths *)
above(x, upper_x8) == 8 * x > upper_x8

(* The bounds are kept as the integers 8*lower and 8*upper. *)
compute_outliers(ser) ==
  LET s == coerce(ser)
      q1 == quantile_x4(s, 1)
      q3 == quantile_x4(s, 3)
      iqr == q3 - q1
      lower == 2 * q1 - 3 * iqr
      upper == 2 * q3 + 3 * iqr
      out == {i \in 1..Len(s) : below(s[i], lower) \/ above(s[i], upper)}
  IN IF Len(s) = 0 THEN [method |-> "none", count |-> 0]
     ELSE [method |-> "IQR", count |-> Cardinality(out),
           lower_x8 |-> lower, upper_x8 |-> upper]

sample_values_n == 5

(* col_distinct with nunique(dropna=False) *)
col_distinct_with_nan(s) == Cardinality({s.cells[i] : i \in 1..Len(s.cells)})

col_distinct(s) == nunique(s)

(* The tables profiled hold fewer than sample_n rows: the sample of        *)
(* detect_pattern is the whole column, taken here in column order.        *)
col_stats(s) ==
  LET cnt == len(s)
      nulls == isna_sum(s)
      distinct == col_distinct(s)
      base == [dtype |-> s.dtype, count |-> cnt, nulls |-> nulls, distinct |-> distinct,
               sample_values |-> tolist(head(astype_str(dropna(s)), sample_values_n)),
               pattern |-> detect_pattern(s, IdentityDraw(len(dropna(s))))]
      s_num == coerce(s)
  IN IF is_numeric_dtype(s)
     THEN [dtype |-> base.dtype, count |-> base.count, nulls |-> base.nulls,
           distinct |-> base.distinct, sample_values |-> base.sample_values,
           pattern |-> base.pattern,
           min |-> IF Len(s_num) > 0 THEN SeqMin(s_num) ELSE None,
           max |-> IF Len(s_num) > 0 THEN SeqMax(s_num) ELSE None,
           outliers |-> compute_outliers(s)]
     ELSE base

Insight(text, col, n) == [text |-> text, col |-> col, n |-> n]

col_insights(col, s) ==
  LET st == col_stats(s)
  IN IF is_numeric_dtype(s)
     THEN IF st.outliers.count > 0
          THEN <<Insight("Column '{col}' has {n} potential outliers (IQR).", col, st.outliers.count)>>
          ELSE <<>>
     ELSE (IF st.nulls > 0
           THEN <<Insight("Column '{col}' has {n} nulls.", col, st.nulls)>> ELSE <<>>)
          \o (IF 100 * st.distinct < low_cardinality_pct * Max(1, st.count)
              THEN <<Insight("Column '{col}' appears low-cardinality ({n} unique). may be categorical.",
                             col, st.distinct)>>
              ELSE <<>>)

RECURSIVE all_insights(_, _)
all_insights(d, n) ==
  IF n = 0 THEN <<>> ELSE all_insights(d, n - 1) \o col_insights(n, d[n])

numeric_columns(d) == {i \in 1..Len(d) : is_numeric_dtype(d[i])}

(* The correlation matrix and the anomaly scores are kept by presence.    *)
(* IsolationForest.fit raises ValueError on a table with no rows.          *)
profile_dataframe(d) ==
  IF numeric_columns(d) # {} /\ \A i \in 1..Len(d) : len(d[i]) = 0
  THEN [raised |-> "ValueError"]
  ELSE
  [columns_overview |-> [i \in 1..Len(d) |-> col_stats(d[i])],
   correlations |-> IF Cardinality(numeric_columns(d)) > 1 THEN "matrix" ELSE "None",
   anomaly_scores |-> IF Cardinality(numeric_columns(d)) = 0 THEN "None" ELSE "scores",
   top_insights |-> all_insights(d, Len(d))]

----------------------------------------------------------------------------
(* The inputs: columns of a few short cells, and long columns made of one *)
(* repeated cell and a short tail, around the thresholds of the code.     *)

MaxLen == 3

MaxTail == 1

MaxRows == 2

MaxCols == 2

RepCounts == {48, 49, 50, 51}

Cells ==
  {NaN, Num(1), Num(12),
   Str(<<>>), Str(<<"1">>), Str(<<"a", "b">>), Str(<<"a", "@", "b">>),
   Str(<<"1", "2", "3", "-", "4", "5", "6", "7">>),
   Str(<<"2", "1", "-", "1", "-", "5">>)}

DfCells == {NaN, Num(1), Str(<<"a">>)}

SeqsUpTo(S, n) == UNION {[1..k -> S] : k \in 0..n}

Rep(c, n) == [i \in 1..n |-> c]

(* The dtypes pandas gives a column of these cells. *)
DtypesFor(cells) ==
  IF \E i \in 1..Len(cells) : cells[i].k = "str" THEN {"object"}
  ELSE IF \E i \in 1..Len(cells) : cells[i] = NaN THEN {"float64", "object"}
  ELSE {"int64", "float64", "object"}

ColumnsOf(cellseqs) == {Series(d, c) : c \in cellseqs, d \in {"int64", "float64", "object"}}

WellTyped(s) == s.dtype \in DtypesFor(s.cells)

ShortColumns == {s \in ColumnsOf(SeqsUpTo(Cells, MaxLen)) : WellTyped(s)}

(* The repeated cell: a number, a string of letters, an empty string. *)
RepCells == {Num(1), Str(<<"a", "b">>), Str(<<>>)}

LongColumns ==
  {s \in ColumnsOf({Rep(c, n) \o t : c \in RepCells, n \in RepCounts, t \in SeqsUpTo(Cells, MaxTail)}) :
     WellTyped(s)}

(* The column ["1", "2", "3", None]. *)
ScenarioColumn == Series("object", <<Str(<<"1">>), Str(<<"2">>), Str(<<"3">>), NaN>>)

Columns == ShortColumns \cup LongColumns \cup {ScenarioColumn}

EmptyColumn == Series("object", <<>>)

DfColumns(r) == {s \in ColumnsOf([1..r -> DfCells]) : WellTyped(s)}

Dataframes == UNION {[1..c -> DfColumns(r)] : r \in 0..MaxRows, c \in 0..MaxCols}

MaxRefLen == 2

RefCells == {NaN, Num(1), Str(<<"1">>), Str(<<"a">>)}

(* The column 0, 1, ..., n-1 of integers. *)
RangeColumn(n) == Series("int64", [i \in 1..n |-> Num(i - 1)])

ShortRefColumns == {s \in ColumnsOf(SeqsUpTo(RefCells, MaxRefLen)) : WellTyped(s)}

(* Long targets around the 0.02 ratio, with and without a null; a target  *)
(* of three distinct strings; a target of 20 distinct values.             *)
LongTargets ==
  {s \in ColumnsOf({Rep(c, n) \o t : c \in {Num(1), Str(<<"a">>)}, n \in {50, 51},
                                      t \in {<<>>, <<NaN>>}}) : WellTyped(s)}
  \cup {Series("object", <<Str(<<"1">>), Str(<<"a">>), Str(<<"b">>)>>), RangeColumn(20)}

TargetColumns == ShortRefColumns \cup LongTargets

(* A reference of max_samples one-letter strings and one longer string. *)
LongStringReference ==
  Series("object", Rep(Str(<<"a">>), max_samples) \o <<Str(<<"a", "b", "c">>)>>)

ReferenceColumns ==
  ShortRefColumns \cup {RangeColumn(n) : n \in {19, 21, 51, 201}} \cup {LongStringReference}

LargeReferenceTargets ==
  {Series("int64", <<Num(1)>>), Series("object", <<Str(<<"a">>)>>), RangeColumn(20)}

SampleOrders == {"forward", "reversed"}

(* The draws of Series.sample on n values: every rotation of a short     *)
(* column and of its reverse (all the orders of up to three values), the  *)
(* two opposite orders of a long one.                                     *)
Draws(n) ==
  IF 0 < n /\ n <= MaxLen
  THEN {[i \in 1..n |-> ((i + k - 1) % n) + 1] : k \in 0..(n - 1)}
       \cup {[i \in 1..n |-> ((n - i + k) % n) + 1] : k \in 0..(n - 1)}
  ELSE {IdentityDraw(n), ReversedDraw(n)}

----------------------------------------------------------------------------
(* The calls of app.py on one uploaded column, and on one uploaded table *)

Init ==
  /\ series \in Columns
  /\ reference = EmptyColumn
  /\ df = <<>>
  /\ rules = <<>>
  /\ ref_rules = <<>>
  /\ outliers = None
  /\ profile = None
  /\ samples = <<>>
  /\ label = <<>>
  /\ regex = NotCalled
  /\ drawn = None

GeneratePbl ==
  /\ rules' = generate_pbl_for_column(series)
  /\ UNCHANGED <<series, reference, df, ref_rules, outliers, profile,
               samples, label, regex, drawn>>

ComputeOutliers ==
  /\ outliers' = compute_outliers(series)
  /\ UNCHANGED <<series, reference, df, rules, ref_rules, profile,
               samples, label, regex, drawn>>

Next == GeneratePbl \/ ComputeOutliers

Spec == Init /\ [][Next]_vars

(* The calls of detect_pattern on one column, for each draw of its sample *)
InitPattern == Init

DetectPattern ==
  /\ \E draw \in Draws(len(dropna(series))) : label' = detect_pattern(series, draw)
  /\ UNCHANGED <<series, reference, df, rules, ref_rules, outliers, profile,
               samples, regex, drawn>>

NextPattern == DetectPattern

SpecPattern == InitPattern /\ [][NextPattern]_vars

InitDf ==
  /\ series = EmptyColumn
  /\ reference = EmptyColumn
  /\ df \in Dataframes
  /\ rules = <<>>
  /\ ref_rules = <<>>
  /\ outliers = None
  /\ profile = None
  /\ samples = <<>>
  /\ label = <<>>
  /\ regex = NotCalled
  /\ drawn = None

ProfileDataframe ==
  /\ profile' = profile_dataframe(df)
  /\ UNCHANGED <<series, reference, df, rules, ref_rules, outliers,
               samples, label, regex, drawn>>

NextDf == ProfileDataframe

SpecDf == InitDf /\ [][NextDf]_vars

(* The reference of 201 values is paired with three targets. *)
InitRef ==
  /\ reference \in ReferenceColumns
  /\ series \in IF len(reference) > 100 THEN LargeReferenceTargets ELSE TargetColumns
  /\ df = <<>>
  /\ rules = <<>>
  /\ ref_rules = <<>>
  /\ outliers = None
  /\ profile = None
  /\ samples = <<>>
  /\ label = <<>>
  /\ regex = NotCalled
  /\ drawn = None

(* drawn keeps the two lists sampled by the call. *)
DeriveRules ==
  /\ \E order \in SampleOrders :
       /\ ref_rules' = derive_rules_from_reference(series, reference, order, order)
       /\ drawn' = [ref_sample |-> sample_list(reference, order),
                    tgt_sample |-> sample_list(series, order)]
  /\ UNCHANGED <<series, reference, df, rules, outliers, profile,
               samples, label, regex>>

NextRef == DeriveRules \/ GeneratePbl

SpecRef == InitRef /\ [][NextRef]_vars

(* The calls of _suggest_regex_from_sample on one list of strings: short  *)
(* lists, and lists of max_samples equal strings and a short tail.        *)
MaxSample == 3

RegexStrings ==
  {<<>>, <<"1">>, <<"a", "b">>, <<"a", "@", "b">>, <<"2", "1", "-", "1", "-", "5">>}

SampleLists ==
  SeqsUpTo(RegexStrings, MaxSample)
  \cup {Rep(c, max_samples) \o q : c \in RegexStrings, q \in SeqsUpTo(RegexStrings, 1)}

InitRegex ==
  /\ series = EmptyColumn
  /\ reference = EmptyColumn
  /\ df = <<>>
  /\ rules = <<>>
  /\ ref_rules = <<>>
  /\ outliers = None
  /\ profile = None
  /\ samples \in SampleLists
  /\ label = <<>>
  /\ regex = NotCalled
  /\ drawn = None

SuggestRegex ==
  /\ regex' = _suggest_regex_from_sample(samples)
  /\ UNCHANGED <<series, reference, df, rules, ref_rules, outliers, profile,
               samples, label, drawn>>

NextRegex == SuggestRegex

SpecRegex == InitRegex /\ [][NextRegex]_vars

----------------------------------------------------------------------------
(* Vocabulary of the properties *)

Has(rs, text) == \E i \in 1..Len(rs) : rs[i].text = text

Positions(rs, texts) == {i \in 1..Len(rs) : rs[i].text \in texts}

NullTexts == {"Nulls are NOT allowed.", "Nulls are allowed."}

CharClassTexts ==
  {"Only numeric characters allowed.", "No special characters or alphabets allowed.",
   "Alphabetic characters allowed only.", "Email format expected (contains '@').",
   "Phone number like pattern detected.",
   "Avoid special characters unless required (/, -, : etc)."}

ClosingTexts ==
  {"No special characters or alphabets allowed.",
   "Avoid special characters unless required (/, -, : etc)."}

LengthTexts ==
  {"Character length between {min} and {max}.",
   "Recommended character length between {min} and {max}."}

CandidateKeyText == "Values are unique - consider as candidate key."

LowCardinalityText ==
  "Low cardinality - likely categorical; map to lookup table or enumerations."

UniquenessTexts == {CandidateKeyText, LowCardinalityText}

(* The non-null cells of a column, in order, and their string forms. *)
NonNull(s) == SelectSeq(s.cells, LAMBDA c : c.k # "nan")

NonNullStr(s) == [i \in 1..Len(NonNull(s)) |-> cell_str(NonNull(s)[i], s.dtype)]

DigitCount(q) == Cardinality({i \in 1..Len(q) : fullmatch_digits(q[i])})

AlphaCount(q) == Cardinality({i \in 1..Len(q) : fullmatch_alpha(q[i])})

NullCount(s) == Len(s.cells) - Len(NonNull(s))

DistinctNonNull(s) == Cardinality({NonNull(s)[i] : i \in 1..Len(NonNull(s))})

----------------------------------------------------------------------------
(* generate_pbl_for_column *)

NumericBranch ==
  /\ Has(rules, "Only numeric characters allowed.")
  /\ Has(rules, "No special characters or alphabets allowed.")

AlphaBranch == Has(rules, "Alphabetic characters allowed only.")

GenericBranch == Has(rules, "Avoid special characters unless required (/, -, : etc).")

(* C4: generate_pbl_for_column takes exactly one of the three character-   *)
(* class branches: the numeric-only one iff at least 98% of the non-null   *)
(* stringified values are all digits; otherwise the alphabetic-only one    *)
(* iff at least 98% are letters and spaces; otherwise the generic one,     *)
(* whose email and phone hints are decided by the first 50 non-null        *)
(* values.  A column with no non-null value takes the generic branch.      *)
C4_CharClassBranches ==
  rules # <<>> =>
    LET values == NonNullStr(series)
        first50 == SubSeq(values, 1, Min(50, Len(values)))
        mostlyDigits == Len(values) > 0 /\ 100 * DigitCount(values) >= 98 * Len(values)
        mostlyAlpha == Len(values) > 0 /\ 100 * AlphaCount(values) >= 98 * Len(values)
    IN /\ NumericBranch <=> mostlyDigits
       /\ AlphaBranch <=> (~mostlyDigits /\ mostlyAlpha)
       /\ GenericBranch <=> (~mostlyDigits /\ ~mostlyAlpha)
       /\ Cardinality({b \in {"n", "a", "g"} :
                         \/ b = "n" /\ Has(rules, "Only numeric characters allowed.")
                         \/ b = "n" /\ Has(rules, "No special characters or alphabets allowed.")
                         \/ b = "a" /\ AlphaBranch
                         \/ b = "g" /\ GenericBranch}) = 1
       /\ Has(rules, "Email format expected (contains '@').")
            <=> (GenericBranch /\ \E i \in 1..Len(first50) : search_at(first50[i]))
       /\ Has(rules, "Phone number like pattern detected.")
            <=> (GenericBranch /\ \E i \in 1..Len(first50) : fullmatch_phone(first50[i]))
       /\ Len(values) = 0 => GenericBranch

(* The numeric-only branch taken at exactly 98%: 49 of 50 values are digits. *)
C4_Witness ==
  /\ rules # <<>>
  /\ NumericBranch
  /\ Len(NonNullStr(series)) = 50
  /\ DigitCount(NonNullStr(series)) = 49

(* C5: the list returned by generate_pbl_for_column holds exactly one     *)
(* nullability rule, as its first element: "Nulls are NOT allowed." iff   *)
(* the column has zero nulls, otherwise "Nulls are allowed.".             *)
C5_NullabilityFirst ==
  rules # <<>> =>
    /\ Positions(rules, NullTexts) = {1}
    /\ rules[1].text = "Nulls are NOT allowed." <=> NullCount(series) = 0
    /\ rules[1].text = "Nulls are allowed." <=> NullCount(series) > 0

C5_Witness ==
  /\ rules # <<>>
  /\ NullCount(series) > 0
  /\ Len(NonNull(series)) > 0
  /\ rules[1].text = "Nulls are allowed."

Rank(r) ==
  IF r.text \in NullTexts THEN 1
  ELSE IF r.text \in CharClassTexts THEN 2
  ELSE IF r.text \in LengthTexts THEN 3
  ELSE 4

(* C6 as stated: the rules appear in the order nullability, character-     *)
(* class/format, length, cardinality/uniqueness, so that no character-     *)
(* class/format rule appears after the length rule.                        *)
C6_Original ==
  rules # <<>> => \A i, j \in 1..Len(rules) : i < j => Rank(rules[i]) <= Rank(rules[j])

(* C6 amended: the nullability rule is first; a cardinality/uniqueness     *)
(* rule, when emitted, is last; every rule between them is a character-    *)
(* class/format rule or the single length rule; and the length rule, when  *)
(* emitted, is directly followed by the closing character-class rule of    *)
(* its branch, every other character-class/format rule coming before it.   *)
C6_Order ==
  rules # <<>> =>
    /\ Rank(rules[1]) = 1
    /\ \A i \in 2..Len(rules) : Rank(rules[i]) \in {2, 3, 4}
    /\ \A i \in 1..Len(rules) : Rank(rules[i]) = 4 => (i = Len(rules) /\ rules[i].text \in UniquenessTexts)
    /\ Cardinality(Positions(rules, LengthTexts)) <= 1
    /\ \A i \in Positions(rules, LengthTexts) :
         /\ i < Len(rules)
         /\ rules[i + 1].text \in ClosingTexts
         /\ \A j \in Positions(rules, CharClassTexts) : j > i => j = i + 1

(* A length rule followed by a character-class rule and then a uniqueness rule. *)
C6_Witness ==
  /\ Len(rules) >= 5
  /\ rules[Len(rules)].text \in UniquenessTexts
  /\ rules[Len(rules) - 2].text \in LengthTexts
  /\ rules[Len(rules) - 1].text \in ClosingTexts

(* C8: the candidate-key rule is emitted iff the number of distinct non-   *)
(* null values equals the number of non-null values; otherwise the low-    *)
(* cardinality rule is emitted iff distinct / max(1, rows) < 0.02; never   *)
(* both; a column with no non-null value receives the candidate-key rule.  *)
C8_Uniqueness ==
  rules # <<>> =>
    LET d == DistinctNonNull(series)
        n == Len(NonNull(series))
        total == Len(series.cells)
    IN /\ Has(rules, CandidateKeyText) <=> d = n
       /\ Has(rules, LowCardinalityText) <=> (d # n /\ 100 * d < 2 * Max(1, total))
       /\ ~(Has(rules, CandidateKeyText) /\ Has(rules, LowCardinalityText))
       /\ Cardinality(Positions(rules, UniquenessTexts)) <= 1
       /\ n = 0 => Has(rules, CandidateKeyText)

(* The low-cardinality rule on a column whose nulls bring it past 50 rows. *)
C8_Witness ==
  /\ Has(rules, LowCardinalityText)
  /\ NullCount(series) > 0
  /\ 100 * DistinctNonNull(series) >= 2 * Len(NonNull(series))

----------------------------------------------------------------------------
(* profile_dataframe and compute_outliers *)

(* C9: every column record of profile_dataframe has                        *)
(* nulls + (number of non-null cells) = count = number of rows, and        *)
(* distinct <= count - nulls.                                              *)
C9_ColumnCounts ==
  (profile # None /\ "columns_overview" \in DOMAIN profile) =>
    \A i \in 1..Len(df) :
      LET st == profile.columns_overview[i]
      IN /\ st.nulls + Len(NonNull(df[i])) = st.count
         /\ st.count = Len(df[i].cells)
         /\ st.distinct <= st.count - st.nulls

(* A profiled table with a column holding a null beside a value, and a    *)
(* column holding a repeated value.                                        *)
C9_Witness ==
  /\ profile # None
  /\ "columns_overview" \in DOMAIN profile
  /\ \E i \in 1..Len(df) :
       /\ profile.columns_overview[i].nulls > 0
       /\ profile.columns_overview[i].distinct > 0
  /\ \E i \in 1..Len(df) :
       profile.columns_overview[i].distinct
         < profile.columns_overview[i].count - profile.columns_overview[i].nulls

Coercible(c) ==
  \/ c.k = "int"
  \/ c.k = "str" /\ fullmatch_digits(c.s)
  \/ c.k = "str" /\ Len(c.s) > 1 /\ c.s[1] = "+" /\ fullmatch_digits(Tail(c.s))

CoercedValue(c) ==
  IF c.k = "int" THEN c.n
  ELSE IF c.s[1] = "+" THEN str_int(Tail(c.s)) ELSE str_int(c.s)

CoercedCells(s) == {i \in 1..Len(s.cells) : Coercible(s.cells[i])}

(* C10: compute_outliers returns {method "none", count 0} exactly when     *)
(* the column has no numeric-coercible value; otherwise method "IQR" with  *)
(* lower = Q1 - 1.5*IQR, upper = Q3 + 1.5*IQR (kept in eighths), Q1 and Q3 *)
(* between the least and the greatest value, count the number of coerced   *)
(* values strictly below lower or strictly above upper, and lower <= upper. *)
C10_Outliers ==
  outliers # None =>
    LET idx == CoercedCells(series)
        val(i) == CoercedValue(series.cells[i])
    IN /\ outliers.method \in {"none", "IQR"}
       /\ outliers.method = "none" <=> idx = {}
       /\ outliers.method = "none" => outliers = [method |-> "none", count |-> 0]
       /\ outliers.method = "IQR" =>
            LET q1 == quantile_x4(coerce(series), 1)
                q3 == quantile_x4(coerce(series), 3)
            IN /\ \E i \in idx : 4 * val(i) <= q1
               /\ \E i \in idx : 4 * val(i) >= q3
               /\ q1 <= q3
               /\ outliers.lower_x8 = 2 * q1 - 3 * (q3 - q1)
               /\ outliers.upper_x8 = 2 * q3 + 3 * (q3 - q1)
               /\ outliers.lower_x8 <= outliers.upper_x8
               /\ outliers.count =
                    Cardinality({i \in idx : 8 * val(i) < outliers.lower_x8
                                             \/ 8 * val(i) > outliers.upper_x8})
               /\ \A i \in idx :
                    (8 * val(i) = outliers.lower_x8 \/ 8 * val(i) = outliers.upper_x8)
                      => outliers.count
                           <= Cardinality({j \in idx : val(j) # val(i)})

(* Values equal to both bounds, and one value outside them, counted. *)
C10_Witness ==
  /\ outliers # None
  /\ outliers.method = "IQR"
  /\ outliers.count > 0
  /\ \E i \in CoercedCells(series) :
       8 * CoercedValue(series.cells[i]) = outliers.upper_x8

----------------------------------------------------------------------------
(* derive_rules_from_reference *)

RefNoNullsText == "Nulls are NOT allowed (reference has no nulls)."

RefTargetNullsText == "Nulls are present in this dataset but reference expects none."

RefNullsAllowedText == "Nulls allowed (reference permits nulls)."

RefNullTexts == {RefNoNullsText, RefTargetNullsText, RefNullsAllowedText}

(* C1: derive_rules_from_reference emits exactly one nullability rule,    *)
(* chosen by the null counts of the two input columns: the "NOT allowed"  *)
(* rule when neither column has a null, the "present in this dataset"     *)
(* rule when only the target has one, the "Nulls allowed" rule when the   *)
(* reference has one.                                                      *)
C1_Original ==
  ref_rules # <<>> =>
    /\ Cardinality(Positions(ref_rules, RefNullTexts)) = 1
    /\ Has(ref_rules, RefNoNullsText)
         <=> (NullCount(reference) = 0 /\ NullCount(series) = 0)
    /\ Has(ref_rules, RefTargetNullsText)
         <=> (NullCount(reference) = 0 /\ NullCount(series) > 0)
    /\ Has(ref_rules, RefNullsAllowedText) <=> NullCount(reference) > 0

TargetRangeText == "Numeric range observed in target: min={min}, max={max}."

ReferenceRangeText == "Reference numeric range: min={min}, max={max}."

HasRange(rs, text, lo, hi) ==
  \E i \in 1..Len(rs) : rs[i] = [text |-> text, min |-> lo, max |-> hi]

NumericColumn(s) == s.dtype \in {"int64", "float64"}

(* C2: when the target and the reference column are both numeric,          *)
(* derive_rules_from_reference emits the target range rule if the target   *)
(* has a coercible value and the reference range rule if the reference     *)
(* has one, each with that side's minimum and maximum.                     *)
C2_Original ==
  (ref_rules # <<>> /\ NumericColumn(series) /\ NumericColumn(reference)) =>
    /\ Len(coerce(series)) > 0
         => HasRange(ref_rules, TargetRangeText, SeqMin(coerce(series)), SeqMax(coerce(series)))
    /\ Len(coerce(reference)) > 0
         => HasRange(ref_rules, ReferenceRangeText,
                     SeqMin(coerce(reference)), SeqMax(coerce(reference)))

EnumerationText == "Allowed values derived from reference (enumeration of {n} values)."

AllowedSampleText == "Allowed values (sample): {values}"

LookupText == "Reference provides a large allowed list ({n} values). Use lookup mapping."

FractionText == "Fraction of target values present in reference: {frac}"

PartialText == "{frac} fraction of target values match reference values (partial overlap)."

NoOverlapText ==
  "No meaningful overlap with reference values; reference may be different domain or mismatch."

OverlapTexts ==
  {EnumerationText, AllowedSampleText, LookupText, FractionText, PartialText, NoOverlapText}

DistinctStr(s) == {NonNullStr(s)[i] : i \in 1..Len(NonNullStr(s))}

(* h hundredths is n/d to two decimals *)
TwoDecimals(h, n, d) == 2 * (h * d - 100 * n) <= d /\ 2 * (100 * n - h * d) <= d

(* q lists, in ascending order, the least Len(q) strings of vals *)
LeastSorted(q, vals) ==
  /\ \A i \in 1..Len(q) : q[i] \in vals
  /\ \A i \in 1..(Len(q) - 1) : str_lt(q[i], q[i + 1])
  /\ \A v \in vals : (\E i \in 1..Len(q) : q[i] = v) \/ (Len(q) > 0 /\ str_lt(q[Len(q)], v))

TextsAt(rs, texts) == [i \in 1..Cardinality(Positions(rs, texts)) |->
                         rs[CHOOSE p \in Positions(rs, texts) :
                              Cardinality({o \in Positions(rs, texts) : o < p}) = i - 1].text]

(* C3: with a non-null value on both sides, overlap_frac is the number of *)
(* distinct target values found among the distinct reference values over  *)
(* the number of distinct target values, and exactly one branch fires:    *)
(* at or above enum_threshold (0.95) the sorted reference values, capped   *)
(* at 200, give the enumeration rule and a sample of at most 20 when they *)
(* are at most 50, else the lookup rule, the fraction rule following in   *)
(* both cases; below it the partial-overlap rule when overlap_frac > 0,   *)
(* else the no-overlap rule.  With no non-null value on a side, none.     *)
C3_Enumeration ==
  ref_rules # <<>> =>
    LET tv == DistinctStr(series)
        rv == DistinctStr(reference)
        n == Cardinality(tv \cap rv)
        d == Cardinality(tv)
        k == Min(200, Cardinality(rv))
        found == TextsAt(ref_rules, OverlapTexts)
        at(text) == ref_rules[CHOOSE i \in 1..Len(ref_rules) : ref_rules[i].text = text]
    IN IF tv = {} \/ rv = {} THEN found = <<>>
       ELSE IF 100 * n >= 95 * d THEN
         /\ k <= 50 =>
              /\ found = <<EnumerationText, AllowedSampleText, FractionText>>
              /\ at(EnumerationText).n = k
              /\ Len(at(AllowedSampleText).values) = Min(20, k)
              /\ LeastSorted(at(AllowedSampleText).values, rv)
         /\ k > 50 =>
              /\ found = <<LookupText, FractionText>>
              /\ at(LookupText).n = k
         /\ TwoDecimals(at(FractionText).frac, n, d)
       ELSE IF n > 0 THEN
         /\ found = <<PartialText>>
         /\ TwoDecimals(at(PartialText).frac, n, d)
       ELSE found = <<NoOverlapText>>

(* 19 of 20 distinct target values are in the reference: 0.95 exactly. *)
C3_Witness ==
  /\ ref_rules # <<>>
  /\ Cardinality(DistinctStr(series)) = 20
  /\ Cardinality(DistinctStr(series) \cap DistinctStr(reference)) = 19
  /\ Has(ref_rules, EnumerationText)
  /\ Has(ref_rules, FractionText)

RefCandidateKeyText == "Values in this dataset are unique - candidate key."

RefLowCardinalityText == "Low cardinality in target - likely categorical."

PblKind ==
  IF Has(rules, CandidateKeyText) THEN "candidate"
  ELSE IF Has(rules, LowCardinalityText) THEN "low" ELSE "neither"

RefKind ==
  IF Has(ref_rules, RefCandidateKeyText) THEN "candidate"
  ELSE IF Has(ref_rules, RefLowCardinalityText) THEN "low" ELSE "neither"

(* C7 as stated: for every target column, nulls or not, the uniqueness    *)
(* outcome at the end of derive_rules_from_reference is of the same kind  *)
(* as the one generate_pbl_for_column produces for that column.           *)
C7_Original ==
  (rules # <<>> /\ ref_rules # <<>>) => PblKind = RefKind

(* Distinct non-null values of the column have distinct string forms. *)
StrInjective(s) == Cardinality(DistinctStr(s)) = DistinctNonNull(s)

(* C7 amended: for a target column whose distinct values have distinct    *)
(* string forms, the two functions agree on the candidate-key rule, the   *)
(* low-cardinality rule of derive_rules_from_reference (ratio over the    *)
(* non-null rows) is emitted only if that of generate_pbl_for_column      *)
(* (ratio over all rows) is, and the two outcomes are of the same kind    *)
(* when the column has no nulls.                                           *)
C7_SameKind ==
  (rules # <<>> /\ ref_rules # <<>> /\ StrInjective(series)) =>
    /\ (PblKind = "candidate") <=> (RefKind = "candidate")
    /\ RefKind = "low" => PblKind = "low"
    /\ NullCount(series) = 0 => PblKind = RefKind

(* Both functions give the low-cardinality rule for 51 equal values. *)
C7_Witness ==
  /\ rules # <<>>
  /\ ref_rules # <<>>
  /\ StrInjective(series)
  /\ NullCount(series) = 0
  /\ PblKind = "low"
  /\ RefKind = "low"

----------------------------------------------------------------------------
(* profile_dataframe on tables with few numeric columns *)

(* The columns of a numeric dtype, read from the table itself. *)
NumericDtypeCount == Cardinality({i \in 1..Len(df) : df[i].dtype \in {"int64", "float64"}})

(* C11 as stated: profile_dataframe does not raise on a table with fewer  *)
(* than two numeric columns, and in the profile it returns correlations   *)
(* is not None exactly when the table has at least two numeric columns    *)
(* and anomaly_scores is not None exactly when it has at least one.       *)
(* A table with one numeric column and no rows violates it:               *)
(* IsolationForest.fit raises ValueError on zero samples.                 *)
C11_Original ==
  profile # None =>
    /\ NumericDtypeCount < 2 => "raised" \notin DOMAIN profile
    /\ "raised" \notin DOMAIN profile =>
         /\ (profile.correlations # "None") <=> (NumericDtypeCount >= 2)
         /\ (profile.anomaly_scores # "None") <=> (NumericDtypeCount >= 1)

----------------------------------------------------------------------------
(* detect_pattern *)

Categories == {"alpha", "date-like", "email-like", "numeric"}

(* The place of a category name in lexicographic order. *)
CategoryRank(cat) ==
  CASE cat = "alpha" -> 1
    [] cat = "date-like" -> 2
    [] cat = "email-like" -> 3
    [] cat = "numeric" -> 4

(* The categories matched by at least one non-null value of the column. *)
MatchedCategories(s) ==
  LET vals == NonNullStr(s)
  IN {cat \in Categories :
        \E i \in 1..Len(vals) :
          \/ cat = "numeric" /\ fullmatch_digits(vals[i])
          \/ cat = "alpha" /\ fullmatch_alpha(vals[i])
          \/ cat = "email-like" /\ search_at(vals[i])
          \/ cat = "date-like" /\ search_date(vals[i])}

(* q lists the names of cats once each, in lexicographic order. *)
SortedJoin(q, cats) ==
  /\ {q[i] : i \in 1..Len(q)} = cats
  /\ \A i, j \in 1..Len(q) : i < j => CategoryRank(q[i]) < CategoryRank(q[j])

(* C12: detect_pattern returns "empty" exactly when the column has no     *)
(* non-null value; otherwise, on a column of at most sample_n non-null    *)
(* values, whatever the draw of the sample, the label lists in            *)
(* lexicographic order the categories matched by at least one non-null    *)
(* value, or is "mixed" when none is matched; a column whose non-null     *)
(* values are all strings of digits is labelled exactly "numeric".        *)
C12_Label ==
  label # <<>> =>
    LET vals == NonNullStr(series)
        cats == MatchedCategories(series)
    IN /\ (label = <<"empty">>) <=> (Len(vals) = 0)
       /\ (Len(vals) > 0 /\ Len(vals) <= sample_n) =>
            IF cats = {} THEN label = <<"mixed">> ELSE SortedJoin(label, cats)
       /\ (Len(vals) > 0 /\ DigitCount(vals) = Len(vals)) => label = <<"numeric">>

(* A column of three non-null values of three categories, labelled        *)
(* "alpha, email-like, numeric".                                           *)
C12_Witness ==
  /\ Len(NonNullStr(series)) = 3
  /\ label = <<"alpha", "email-like", "numeric">>

----------------------------------------------------------------------------
(* The length rule of generate_pbl_for_column *)

(* The length rules among the rules emitted. *)
LengthRules == {i \in 1..Len(rules) : rules[i].text \in LengthTexts}

(* lo and hi are the least and the greatest length of the strings of vals *)
LengthBounds(lo, hi, vals) ==
  /\ \E i \in 1..Len(vals) : Len(vals[i]) = lo
  /\ \E i \in 1..Len(vals) : Len(vals[i]) = hi
  /\ \A i \in 1..Len(vals) : lo <= Len(vals[i]) /\ Len(vals[i]) <= hi

(* C13 as stated: a column with a non-null value gets a length rule whose *)
(* bounds are the least and greatest string length of its non-null        *)
(* values, and a column with no non-null value gets no length rule.  A    *)
(* column of letters only, such as ["ab"], violates it: the alphabetic    *)
(* branch emits no length rule.                                            *)
C13_Original ==
  rules # <<>> =>
    LET vals == NonNullStr(series)
    IN IF Len(vals) = 0 THEN LengthRules = {}
       ELSE \E i \in LengthRules : LengthBounds(rules[i].min, rules[i].max, vals)

(* C13 amended: generate_pbl_for_column emits a length rule exactly when  *)
(* the column has a non-null value and does not take the alphabetic-only  *)
(* branch; it emits at most one, and its bounds are the least and         *)
(* greatest string length of the non-null stringified values.             *)
C13_LengthRule ==
  rules # <<>> =>
    LET vals == NonNullStr(series)
    IN /\ (LengthRules # {}) <=> (Len(vals) > 0 /\ ~AlphaBranch)
       /\ Cardinality(LengthRules) <= 1
       /\ \A i \in LengthRules : LengthBounds(rules[i].min, rules[i].max, vals)

(* The column ["1", "2", "3", None] gets "Nulls are allowed." and the     *)
(* numeric-only rules with the length range 1 to 1.                        *)
C13_Witness ==
  /\ series = ScenarioColumn
  /\ rules # <<>>
  /\ rules[1] = Rule("Nulls are allowed.")
  /\ NumericBranch
  /\ \E i \in LengthRules :
       rules[i] = RangeRule("Character length between {min} and {max}.", 1, 1)

----------------------------------------------------------------------------
(* _suggest_regex_from_sample *)

DigitsPattern == "^\\d+$"

EmailPattern == "^[\\w\\.-]+@[\\w\\.-]+\\.\\w{2,}$"

DatePattern == "^\\d{2,4}[-/]\\d{1,2}[-/]\\d{1,2}$"

FallbackPattern == "^.{min,max}$"

(* The values the induction reads: the first max_samples of the list. *)
Sampled(q) == SubSeq(q, 1, Min(max_samples, Len(q)))

(* C14 as stated: on a non-empty sample the result is the all-digits      *)
(* pattern iff every sampled value is all digits; it is the email pattern *)
(* only if every sampled value contains "@", the date pattern only if     *)
(* every sampled value contains a date-like substring, and a sample in    *)
(* which no value contains "@" never gives the email pattern.  The sample *)
(* made of one empty string violates it: the test of "@" skips the empty  *)
(* strings and holds of none left.                                        *)
C14_Original ==
  (regex # NotCalled /\ regex # None) =>
    LET smp == Sampled(samples)
    IN /\ (regex.re = DigitsPattern) <=> (\A i \in 1..Len(smp) : fullmatch_digits(smp[i]))
       /\ (regex.re = EmailPattern) => (\A i \in 1..Len(smp) : search_at(smp[i]))
       /\ (regex.re = DatePattern) => (\A i \in 1..Len(smp) : search_date(smp[i]))
       /\ regex.re \in {DigitsPattern, EmailPattern, DatePattern, FallbackPattern}
       /\ (\A i \in 1..Len(smp) : ~search_at(smp[i])) => regex.re # EmailPattern

----------------------------------------------------------------------------
(* The pattern rule of derive_rules_from_reference *)

PatternText == "Suggested pattern (regex): {pattern}"

PatternRules == {i \in 1..Len(ref_rules) : ref_rules[i].text = PatternText}

(* The list the pattern is to be induced from: the one sampled from the   *)
(* reference when the reference has a non-null value, else the one        *)
(* sampled from the target.                                                *)
InductionSample ==
  IF Len(NonNull(reference)) > 0 THEN drawn.ref_sample ELSE drawn.tgt_sample

(* C15 as stated: the pattern is induced from the list sampled from the   *)
(* reference when the reference has a non-null value and from the one     *)
(* sampled from the target otherwise, and the induction decides over all  *)
(* the values of that list: the all-digits pattern iff all of them are    *)
(* digits, the email and date patterns only if all the non-empty ones     *)
(* match, and the fallback with bounds that hold the length of every      *)
(* sampled value.  A reference of 101 values violates it: only the first  *)
(* max_samples values of the list are read.                                *)
C15_Original ==
  drawn # None =>
    LET smp == InductionSample
    IN /\ (PatternRules # {}) <=> (Len(smp) > 0)
       /\ \A i \in PatternRules :
            LET p == ref_rules[i].pattern
            IN /\ (p.re = DigitsPattern) <=> (\A j \in 1..Len(smp) : fullmatch_digits(smp[j]))
               /\ (p.re = EmailPattern) =>
                    (\A j \in 1..Len(smp) : Len(smp[j]) > 0 => search_at(smp[j]))
               /\ (p.re = DatePattern) =>
                    (\A j \in 1..Len(smp) : Len(smp[j]) > 0 => search_date(smp[j]))
               /\ (p.re = FallbackPattern) =>
                    (\A j \in 1..Len(smp) : p.min <= Len(smp[j]) /\ Len(smp[j]) <= p.max)

====
